---------------------------- MODULE Spec2Model ----------------------------
(***************************************************************************)
(* A model of QdrantConnector (src/src/mcp_server_qdrant/qdrant.py): the   *)
(* connector's operations, each awaited call to the backing database or    *)
(* the embedding provider being one step, over a model of the backing      *)
(* database (collections, their vector slot, payload indexes and points).  *)
(***************************************************************************)
EXTENDS Integers, Sequences, FiniteSets, TLC

(***************************************************************************)
(* Bounds of the model.                                                    *)
(***************************************************************************)
MaxPoints == 2

MaxOps == 3

MaxLimit == 2

MaxBatch == 2

(***************************************************************************)
(* Values.  None stands for Python's None wherever a string is expected;   *)
(* the empty string is a string that Python's "or" treats like None.       *)
(***************************************************************************)
None == "<None>"

Empty == ""

Names == {"c1", "c2"}

Texts == {"a", "b"}

Ids == 1 .. MaxPoints

NoId == 0

\* A JSON value is a tagged triple, so that every payload value has one shape.
NoneVal == <<"none", "", "">>

StrVal(s) == <<"str", s, "">>

DictVal(k, v) == <<"dict", k, v>>

Metas == {NoneVal, DictVal("k", "v")}

\* The callers of the connector; the first is the one that calls alone.
Procs == {1, 2}

Single == {1}


(***************************************************************************)
(* Configuration of the connector, fixed at construction (__init__).       *)
(*   defaultName   self._default_collection_name (None when not given)     *)
(*   metadataPath  the METADATA_PATH constant imported from settings       *)
(*   fieldIndexes  self._field_indexes, the fields in mapping order        *)
(***************************************************************************)
DefaultNames == {None, "c1"}

MetadataPaths == {"metadata", "meta"}

FieldIndexSets == {<< >>, <<"f1", "f2">>}

\* The embedding provider of the connector, and another one that a caller of
\* create_collection_with_config may pass: a vector slot name and a size.
DefaultProvider == [vname |-> "vec-default", size |-> 2]

AltProvider == [vname |-> "vec-alt", size |-> 3]

NoProvider == [vname |-> None, size |-> 0]

\* embed_documents / embed_query of a well-behaved provider: one vector per
\* text, of the provider's size, a function of the text alone.
Embed(text) == [dim |-> DefaultProvider.size, text |-> text]

Range(seq) == {seq[i] : i \in 1 .. Len(seq)}

(***************************************************************************)
(* The backing database: for each name, a collection (or none) with one    *)
(* named vector slot, payload indexes and points.  A point's payload is a  *)
(* set of <<key, value>> pairs; the empty set is "no payload".             *)
(***************************************************************************)
NoColl == [exists |-> FALSE, slot |-> None, size |-> 0, distance |-> None,
           indexes |-> {}, points |-> {}]

NewColl(slot, size, distance) ==
    [exists |-> TRUE, slot |-> slot, size |-> size, distance |-> distance,
     indexes |-> {}, points |-> {}]

HasKey(payload, key) == \E kv \in payload : kv[1] = key

\* dict.get(key): the value under key, None when the key is missing.
Get(payload, key) ==
    IF HasKey(payload, key)
    THEN (CHOOSE kv \in payload : kv[1] = key)[2]
    ELSE NoneVal

\* dict.get(key, default) for a string-valued key.
GetStr(payload, key, default) ==
    IF HasKey(payload, key) THEN Get(payload, key)[2] ELSE default

CollExists(d, c) == c \in Names /\ d[c].exists

PointIds(d, c) == {pt.id : pt \in d[c].points}

UsedIds(d) == UNION {PointIds(d, c) : c \in Names}

TotalPoints(d) == Cardinality(UNION {{<<c, pt.id>> : pt \in d[c].points} : c \in Names})

PointOf(d, c, id) == CHOOSE pt \in d[c].points : pt.id = id

\* A service that would take every create, putting an empty collection in
\* the place of the one it holds.
CreateAcceptedAlways(d, c) == c \in Names

\* The service accepts a create only for a name it does not hold yet.
CreateAccepted(d, c) == c \in Names /\ ~d[c].exists

DbCreate(d, c, slot, size, distance) ==
    [d EXCEPT ![c] = NewColl(slot, size, distance)]

IndexAccepted(d, c) == CollExists(d, c)

DbIndex(d, c, field) ==
    [d EXCEPT ![c].indexes = @ \cup {field}]

\* The service accepts a point whose vector is under the collection's slot
\* and has that slot's size.
PointFits(coll, pt) == pt.vname = coll.slot /\ pt.dim = coll.size

UpsertAccepted(d, c, pts) ==
    /\ CollExists(d, c)
    /\ \A i \in 1 .. Len(pts) : PointFits(d[c], pts[i])

\* Upsert by id: of two points with one id, the later one stays.
RECURSIVE PutPoints(_, _)
PutPoints(S, pts) ==
    IF pts = << >> THEN S
    ELSE PutPoints({q \in S : q.id # Head(pts).id} \cup {Head(pts)}, Tail(pts))

DbUpsert(d, c, pts) == [d EXCEPT ![c].points = PutPoints(@, pts)]

DbDelete(d, c) == [d EXCEPT ![c] = NoColl]

\* The ids of a set in ascending order.
RECURSIVE SortedIds(_)
SortedIds(S) ==
    IF S = {} THEN << >>
    ELSE LET m == CHOOSE x \in S : \A y \in S : x <= y
         IN  <<m>> \o SortedIds(S \ {m})

Take(seq, n) == SubSeq(seq, 1, IF n < Len(seq) THEN n ELSE Len(seq))

\* scroll: the points with id >= offset in id order, at most limit of them,
\* and the id of the first point left out (NoId at the end).
ScrollIds(d, c, offset) == SortedIds({i \in PointIds(d, c) : i >= offset})

ScrollNext(d, c, limit, offset) ==
    IF Len(ScrollIds(d, c, offset)) > limit
    THEN ScrollIds(d, c, offset)[limit + 1]
    ELSE NoId

StripPayload(pt, withPayload) ==
    IF withPayload THEN pt ELSE [pt EXCEPT !.payload = {}]

ScrollPoints(d, c, limit, offset, withPayload) ==
    LET ids == Take(ScrollIds(d, c, offset), limit)
    IN  [i \in 1 .. Len(ids) |-> StripPayload(PointOf(d, c, ids[i]), withPayload)]

\* query_points: the points ranked by similarity to the query vector (the
\* points with the query's own vector first), at most limit of them, each
\* with its score; a score threshold leaves out the points below it.
Score(pt, qv) == IF pt.vec = qv.text THEN 1 ELSE 0

QueryAccepted(d, c, using, qv) ==
    /\ CollExists(d, c)
    /\ using = d[c].slot
    /\ qv.dim = d[c].size

QueryPoints(d, c, qv, limit, minScore) ==
    LET hits == {i \in PointIds(d, c) : Score(PointOf(d, c, i), qv) = 1}
        rest == IF minScore > 0 THEN {} ELSE PointIds(d, c) \ hits
        ids  == Take(SortedIds(hits) \o SortedIds(rest), limit)
    IN  [i \in 1 .. Len(ids) |-> PointOf(d, c, ids[i])]


(***************************************************************************)
(* State.                                                                  *)
(*   db        the backing database                                        *)
(*   tasks     the connector operation each caller has in flight: its      *)
(*             arguments, its position (pc), the calls it has issued (log) *)
(*             and, when done, its result; with it what the caller keeps   *)
(*             of the operation it made just before (before, trav)         *)
(*   nops      the number of operations begun so far                       *)
(***************************************************************************)
VARIABLES nops, db, tasks, defaultName, metadataPath, fieldIndexes, settings,
          connection

vars == <<nops, db, tasks, defaultName, metadataPath, fieldIndexes, settings,
          connection>>

config == <<defaultName, metadataPath, fieldIndexes, settings, connection>>

NoCfg == [size |-> 0, distance |-> << >>, provider |-> NoProvider]

\* CollectionInfo; an Optional[int] is a sequence of no or one number, and
\* NoInfo stands for the None that get_detailed_collection_info may return.
NoInfo == [name |-> None, points_count |-> 0, vector_size |-> << >>,
           distance_metric |-> None]

NoResult == [kind |-> "pending", err |-> Empty, count |-> 0, entries |-> << >>,
             scores |-> << >>, cursor |-> NoId, flag |-> FALSE,
             info |-> NoInfo, names |-> << >>]

NoWrite == [coll |-> None, ensured |-> FALSE, absent |-> FALSE, creates |-> 0,
            stored |-> FALSE, content |-> Empty, metadata |-> NoneVal]

NoTraversal == [coll0 |-> NoColl, cursor |-> NoId, visited |-> << >>,
                calls |-> 0, failed |-> FALSE, active |-> FALSE]

IdleTask == [op |-> "idle", pc |-> "idle", name |-> None, coll |-> None,
             entries |-> << >>, query |-> Empty, limit |-> 0, offset |-> NoId,
             withPayload |-> TRUE, minScore |-> 0, cfg |-> NoCfg,
             log |-> << >>, ensured |-> FALSE, vecs |-> << >>, points |-> << >>,
             idx |-> 0,
             db0 |-> [c \in Names |-> NoColl], result |-> NoResult,
             before |-> NoWrite, trav |-> NoTraversal]

\* A variant in which the default takes precedence.
ResolveDefaultFirst(name, default) ==
    IF default \notin {None, Empty} THEN default ELSE name

\* collection_name or self._default_collection_name
Resolve(name, default) == IF name \notin {None, Empty} THEN name ELSE default

Logged(t, call, c, ok) ==
    [t EXCEPT !.log = Append(@, [call |-> call, coll |-> c, ok |-> ok])]

\* The operation ends with an exception reaching its caller.
Raised(t, err) ==
    [t EXCEPT !.pc = "done", !.result = [NoResult EXCEPT !.kind = "raised", !.err = err]]

\* The operation ends returning a value.
Returned(t, res) ==
    [t EXCEPT !.pc = "done", !.result = [res EXCEPT !.kind = "returned"]]

Calls(t, call) == {i \in 1 .. Len(t.log) : t.log[i].call = call}

CanStart(p) == tasks[p].pc \in {"idle", "done"} /\ nops < MaxOps

\* What the caller keeps of a store or batch_store: the collection, whether
\* _ensure_collection_exists returned and what it did, and the entry of a
\* store that completed without exception.
WriteSummary(t) ==
    [coll |-> t.coll, ensured |-> t.ensured,
     absent |-> ~CollExists(t.db0, t.coll),
     creates |-> Cardinality(Calls(t, "create_collection")),
     stored |-> t.op = "store" /\ t.result.kind = "returned",
     content |-> IF t.op = "store" THEN t.entries[1].content ELSE Empty,
     metadata |-> IF t.op = "store" THEN t.entries[1].metadata ELSE NoneVal]

\* The store or batch_store on collection coll that the caller made just
\* before the operation op it begins now, if there was one.
Before(old, op, coll) ==
    IF /\ old.op \in {"store", "batch_store"}
       /\ old.coll = coll /\ coll # None
       /\ op \in {"store", "batch_store", "search"}
    THEN WriteSummary(old)
    ELSE NoWrite

Begin(p, op, name) ==
    [IdleTask EXCEPT !.op = op, !.name = name,
                     !.coll = Resolve(name, defaultName), !.db0 = db,
                     !.before = Before(tasks[p], op, Resolve(name, defaultName))]

\* {"document": entry.content, METADATA_PATH: entry.metadata}
MakePayload(content, metadata) ==
    {<<"document", StrVal(content)>>, <<metadataPath, metadata>>}

MakePoint(id, vec, entry) ==
    [id |-> id, vname |-> DefaultProvider.vname, dim |-> vec.dim,
     vec |-> vec.text, payload |-> MakePayload(entry.content, entry.metadata)]

\* What embed_documents gives back for docs: k vectors (k = Len(docs) for a
\* provider that keeps its contract).
ProviderVectors(docs, k) == [i \in 1 .. k |-> Embed(docs[i].content)]

(***************************************************************************)
(* _ensure_collection_exists, as called by store and batch_store.          *)
(***************************************************************************)
\* A variant that creates without looking at the answer.
NeedsCreateAlways(exists) == TRUE

\* if not collection_exists:
NeedsCreate(exists) == ~exists

EnsureExistsCheck(p) ==
    LET t == tasks[p] IN
    /\ t.pc = "ensure_exists"
    /\ \E ok \in BOOLEAN :
         LET u == Logged(t, "collection_exists", t.coll, ok) IN
         tasks' = [tasks EXCEPT ![p] =
                     IF ~ok THEN Raised(u, "collection_exists")
                     ELSE IF NeedsCreate(CollExists(db, t.coll))
                     THEN [u EXCEPT !.pc = "ensure_create"]
                     ELSE [u EXCEPT !.pc = "embed", !.ensured = TRUE]]
    /\ UNCHANGED <<nops, db, config>>

\* A variant that leaves the configured indexes out.
AfterCreateNoIndex(t) == [t EXCEPT !.pc = "embed", !.ensured = TRUE]

\* if self._field_indexes: for field_name, field_type in ...items()
AfterCreate(t) ==
    IF fieldIndexes # << >>
    THEN [t EXCEPT !.pc = "ensure_index", !.idx = 1]
    ELSE [t EXCEPT !.pc = "embed", !.ensured = TRUE]

\* The exception of a failed create_collection: the service's refusal of a
\* name it holds already, or another failure of the call.
CreateError(d, c) ==
    IF CreateAccepted(d, c) THEN "create_collection" ELSE "conflict"

EnsureCreate(p) ==
    LET t == tasks[p] IN
    /\ t.pc = "ensure_create"
    /\ \E answer \in BOOLEAN :
         LET ok == answer /\ CreateAccepted(db, t.coll)
             u  == Logged(t, "create_collection", t.coll, ok) IN
         /\ tasks' = [tasks EXCEPT ![p] =
                        IF ok THEN AfterCreate(u) ELSE Raised(u, CreateError(db, t.coll))]
         /\ db' = IF ok
                  THEN DbCreate(db, t.coll, DefaultProvider.vname,
                                DefaultProvider.size, "COSINE")
                  ELSE db
    /\ UNCHANGED <<nops, config>>

EnsureIndex(p) ==
    LET t == tasks[p] IN
    /\ t.pc = "ensure_index"
    /\ \E answer \in BOOLEAN :
         LET ok == answer /\ IndexAccepted(db, t.coll)
             u  == Logged(t, "create_payload_index", t.coll, ok) IN
         /\ tasks' = [tasks EXCEPT ![p] =
                        IF ~ok THEN Raised(u, "create_payload_index")
                        ELSE IF t.idx < Len(fieldIndexes)
                             THEN [u EXCEPT !.idx = t.idx + 1]
                             ELSE [u EXCEPT !.pc = "embed", !.ensured = TRUE]]
         /\ db' = IF ok THEN DbIndex(db, t.coll, fieldIndexes[t.idx]) ELSE db
    /\ UNCHANGED <<nops, config>>


(***************************************************************************)
(* store(entry, collection_name)                                           *)
(***************************************************************************)
StoreStart(p, entry, name) ==
    LET t == Begin(p, "store", name) IN
    /\ CanStart(p)
    /\ TotalPoints(db) < MaxPoints
    /\ tasks' = [tasks EXCEPT ![p] =
                   IF t.coll = None
                   THEN Raised(t, "AssertionError")
                   ELSE [t EXCEPT !.pc = "ensure_exists", !.entries = <<entry>>]]
    /\ nops' = nops + 1
    /\ UNCHANGED <<db, config>>

\* embeddings = await embed_documents([entry.content]); embeddings[0]
StoreEmbed(p) ==
    LET t == tasks[p] IN
    /\ t.op = "store" /\ t.pc = "embed"
    /\ \E ok \in BOOLEAN, k \in 0 .. 1 :
         LET u == Logged(t, "embed_documents", None, ok) IN
         tasks' = [tasks EXCEPT ![p] =
                     IF ~ok THEN Raised(u, "embed_documents")
                     ELSE IF k = 0 THEN Raised(u, "IndexError")
                     ELSE [u EXCEPT !.pc = "upsert",
                                    !.vecs = ProviderVectors(t.entries, k)]]
    /\ UNCHANGED <<nops, db, config>>

\* A variant that swallows a failed upsert.
StoreOutcomeSwallowed(t, ok) == Returned(t, NoResult)

\* await self._client.upsert(...): store has no try around it
StoreOutcome(t, ok) ==
    IF ok THEN Returned(t, NoResult) ELSE Raised(t, "upsert")

StoreUpsert(p) ==
    LET t == tasks[p] IN
    /\ t.op = "store" /\ t.pc = "upsert"
    /\ \E answer \in BOOLEAN, id \in Ids \ UsedIds(db) :
         LET pts == <<MakePoint(id, t.vecs[1], t.entries[1])>>
             ok  == answer /\ UpsertAccepted(db, t.coll, pts)
             u   == [Logged(t, "upsert", t.coll, ok) EXCEPT !.points = pts] IN
         /\ tasks' = [tasks EXCEPT ![p] = StoreOutcome(u, ok)]
         /\ db' = IF ok THEN DbUpsert(db, t.coll, pts) ELSE db
    /\ UNCHANGED <<nops, config>>


(***************************************************************************)
(* batch_store(entries, collection_name)                                   *)
(***************************************************************************)
BatchEntries ==
    { [content |-> "a", metadata |-> NoneVal, id |-> NoId],
      [content |-> "b", metadata |-> DictVal("k", "v"), id |-> 1] }

Batches == UNION {[1 .. n -> BatchEntries] : n \in 0 .. MaxBatch}

BatchStoreStart(p, entries, name) ==
    LET t == Begin(p, "batch_store", name) IN
    /\ CanStart(p)
    /\ TotalPoints(db) + Len(entries) <= MaxPoints
    /\ tasks' = [tasks EXCEPT ![p] =
                   IF t.coll = None
                   THEN Raised(t, "AssertionError")
                   ELSE [t EXCEPT !.pc = "ensure_exists", !.entries = entries]]
    /\ nops' = nops + 1
    /\ UNCHANGED <<db, config>>

Min(a, b) == IF a < b THEN a ELSE b

\* point_id = entry.id or uuid.uuid4().hex, for the entries that zip pairs
\* with an embedding: ids is a choice of the generated identifiers.
FreshChoice(entries, m, ids) ==
    /\ \A i \in 1 .. m : entries[i].id # NoId => ids[i] = entries[i].id
    /\ \A i \in 1 .. m : entries[i].id = NoId =>
          /\ ids[i] \notin UsedIds(db)
          /\ \A j \in 1 .. Len(entries) : ids[i] # entries[j].id
          /\ \A j \in 1 .. m : (j # i /\ entries[j].id = NoId) => ids[j] # ids[i]

\* for (entry, embedding) in zip(entries, embeddings)
Zipped(entries, vecs) == Min(Len(entries), Len(vecs))

BatchEmbed(p) ==
    LET t == tasks[p] IN
    /\ t.op = "batch_store" /\ t.pc = "embed"
    /\ \E ok \in BOOLEAN, k \in 0 .. Len(t.entries) :
         LET u    == Logged(t, "embed_documents", None, ok)
             vecs == ProviderVectors(t.entries, k)
             m    == Zipped(t.entries, vecs) IN
         \E ids \in [1 .. m -> Ids] :
            /\ FreshChoice(t.entries, m, ids)
            /\ tasks' = [tasks EXCEPT ![p] =
                 IF ~ok THEN Returned(u, [NoResult EXCEPT !.err = "embed_documents"])
                 ELSE [u EXCEPT !.pc = "upsert", !.vecs = vecs,
                         !.points = [i \in 1 .. m |->
                                       MakePoint(ids[i], vecs[i], t.entries[i])]]]
    /\ UNCHANGED <<nops, db, config>>

BatchOutcome(t, ok) ==
    IF ok THEN Returned(t, [NoResult EXCEPT !.count = Len(t.points)])
    ELSE Returned(t, [NoResult EXCEPT !.err = "upsert"])

BatchUpsert(p) ==
    LET t == tasks[p] IN
    /\ t.op = "batch_store" /\ t.pc = "upsert"
    /\ \E answer \in BOOLEAN :
         LET ok == answer /\ UpsertAccepted(db, t.coll, t.points)
             u  == Logged(t, "upsert", t.coll, ok) IN
         /\ tasks' = [tasks EXCEPT ![p] = BatchOutcome(u, ok)]
         /\ db' = IF ok THEN DbUpsert(db, t.coll, t.points) ELSE db
    /\ UNCHANGED <<nops, config>>


(***************************************************************************)
(* search, hybrid_search and scroll_collection begin with the same check:  *)
(* collection_exists, and an empty result for a collection that is absent. *)
(***************************************************************************)
AfterExists(t) ==
    IF t.op = "scroll_collection" THEN [t EXCEPT !.pc = "scroll"]
    ELSE [t EXCEPT !.pc = "embed_query"]

\* A variant that goes on although the collection is absent.
MissingProceeds(t) == AfterExists(t)

\* return [] (search, hybrid_search); return [], None (scroll_collection)
MissingResult(t) == Returned(t, NoResult)

IdsOf(pts) == [i \in 1 .. Len(pts) |-> pts[i].id]

\* The caller that pages through a collection: a call without offset begins
\* a traversal, a call with the cursor of the call before continues it.
TraversalAfter(t) ==
    IF t.result.kind # "returned" THEN NoTraversal
    ELSE IF t.offset = NoId
    THEN [coll0 |-> t.db0[t.coll], cursor |-> t.result.cursor,
          visited |-> IdsOf(t.points), calls |-> 1,
          failed |-> t.result.err # Empty, active |-> TRUE]
    ELSE IF t.trav.active
    THEN [t.trav EXCEPT !.cursor = t.result.cursor,
                        !.visited = @ \o IdsOf(t.points),
                        !.calls = @ + 1,
                        !.failed = @ \/ t.result.err # Empty]
    ELSE NoTraversal

Finished(t) ==
    IF t.op = "scroll_collection" /\ t.pc = "done"
    THEN [t EXCEPT !.trav = TraversalAfter(t)]
    ELSE t

ExistsCheck(p) ==
    LET t == tasks[p] IN
    /\ t.pc = "exists"
    /\ \E ok \in BOOLEAN :
         LET u == Logged(t, "collection_exists", t.coll, ok)
             v == IF ~ok THEN Raised(u, "collection_exists")
                  ELSE IF CollExists(db, t.coll) THEN AfterExists(u)
                  ELSE MissingResult(u) IN
         tasks' = [tasks EXCEPT ![p] = Finished(v)]
    /\ UNCHANGED <<nops, db, config>>

(***************************************************************************)
(* search(query, collection_name, limit)                                   *)
(***************************************************************************)
SearchStart(p, query, name, limit) ==
    LET t == Begin(p, "search", name) IN
    /\ CanStart(p)
    /\ tasks' = [tasks EXCEPT ![p] =
                   [t EXCEPT !.pc = "exists", !.query = query, !.limit = limit]]
    /\ nops' = nops + 1
    /\ UNCHANGED <<db, config>>

\* Entry(content=result.payload["document"], metadata=result.payload.get("metadata"))
SearchEntry(pt) ==
    [content |-> Get(pt.payload, "document")[2],
     metadata |-> Get(pt.payload, "metadata")]

\* payload["document"] raises for a point without that key.
Subscriptable(pts) == \A i \in 1 .. Len(pts) : HasKey(pts[i].payload, "document")

SearchEmbed(p) ==
    LET t == tasks[p] IN
    /\ t.op = "search" /\ t.pc = "embed_query"
    /\ \E ok \in BOOLEAN :
         LET u == Logged(t, "embed_query", None, ok) IN
         tasks' = [tasks EXCEPT ![p] =
                     IF ~ok THEN Raised(u, "embed_query")
                     ELSE [u EXCEPT !.pc = "query", !.vecs = <<Embed(t.query)>>]]
    /\ UNCHANGED <<nops, db, config>>

SearchQuery(p) ==
    LET t == tasks[p] IN
    /\ t.op = "search" /\ t.pc = "query"
    /\ \E answer \in BOOLEAN :
         LET ok  == answer /\ QueryAccepted(db, t.coll, DefaultProvider.vname, t.vecs[1])
             u   == Logged(t, "query_points", t.coll, ok)
             pts == IF ok THEN QueryPoints(db, t.coll, t.vecs[1], t.limit, 0) ELSE << >> IN
         tasks' = [tasks EXCEPT ![p] =
                     IF ~ok THEN Raised(u, "query_points")
                     ELSE IF ~Subscriptable(pts) THEN Raised(u, "KeyError")
                     ELSE Returned([u EXCEPT !.points = pts],
                            [NoResult EXCEPT !.entries =
                               [i \in 1 .. Len(pts) |-> SearchEntry(pts[i])]])]
    /\ UNCHANGED <<nops, db, config>>

(***************************************************************************)
(* hybrid_search(query, collection_name, limit, min_score)                 *)
(***************************************************************************)
HybridStart(p, query, name, limit, minScore) ==
    LET t == Begin(p, "hybrid_search", name) IN
    /\ CanStart(p)
    /\ tasks' = [tasks EXCEPT ![p] =
                   [t EXCEPT !.pc = "exists", !.query = query, !.limit = limit,
                             !.minScore = minScore]]
    /\ nops' = nops + 1
    /\ UNCHANGED <<db, config>>

\* Entry(content=result.payload["document"], metadata=result.payload.get(METADATA_PATH))
HybridEntry(pt) ==
    [content |-> Get(pt.payload, "document")[2],
     metadata |-> Get(pt.payload, metadataPath)]

HybridEmbed(p) ==
    LET t == tasks[p] IN
    /\ t.op = "hybrid_search" /\ t.pc = "embed_query"
    /\ \E ok \in BOOLEAN :
         LET u == Logged(t, "embed_query", None, ok) IN
         tasks' = [tasks EXCEPT ![p] =
                     IF ~ok THEN Returned(u, [NoResult EXCEPT !.err = "embed_query"])
                     ELSE [u EXCEPT !.pc = "query", !.vecs = <<Embed(t.query)>>]]
    /\ UNCHANGED <<nops, db, config>>

HybridQuery(p) ==
    LET t == tasks[p] IN
    /\ t.op = "hybrid_search" /\ t.pc = "query"
    /\ \E answer \in BOOLEAN :
         LET ok  == answer /\ QueryAccepted(db, t.coll, DefaultProvider.vname, t.vecs[1])
             u   == Logged(t, "query_points", t.coll, ok)
             pts == IF ok THEN QueryPoints(db, t.coll, t.vecs[1], t.limit, t.minScore)
                    ELSE << >> IN
         tasks' = [tasks EXCEPT ![p] =
                     IF ~ok THEN Returned(u, [NoResult EXCEPT !.err = "query_points"])
                     ELSE IF ~Subscriptable(pts)
                     THEN Returned(u, [NoResult EXCEPT !.err = "KeyError"])
                     ELSE Returned([u EXCEPT !.points = pts],
                            [NoResult EXCEPT
                               !.entries = [i \in 1 .. Len(pts) |-> HybridEntry(pts[i])],
                               !.scores = [i \in 1 .. Len(pts) |-> Score(pts[i], t.vecs[1])]])]
    /\ UNCHANGED <<nops, db, config>>


(***************************************************************************)
(* scroll_collection(collection_name, limit, offset, with_payload)         *)
(***************************************************************************)
\* The traversal that a call with this offset continues, if any.
Continued(old, coll, offset) ==
    IF /\ old.op = "scroll_collection" /\ old.coll = coll
       /\ old.trav.active /\ offset # NoId /\ old.trav.cursor = offset
    THEN old.trav
    ELSE NoTraversal

ScrollStart(p, name, limit, offset, withPayload) ==
    LET t == Begin(p, "scroll_collection", name) IN
    /\ CanStart(p)
    /\ tasks' = [tasks EXCEPT ![p] =
                   IF t.coll = None
                   THEN Raised(t, "AssertionError")
                   ELSE [t EXCEPT !.pc = "exists", !.limit = limit,
                                  !.offset = offset, !.withPayload = withPayload,
                                  !.trav = Continued(tasks[p], t.coll, offset)]]
    /\ nops' = nops + 1
    /\ UNCHANGED <<db, config>>

\* The Entry that scroll_collection makes of one point.
ScrollEntry(pt, withPayload) ==
    IF withPayload /\ pt.payload # {}
    THEN [content |-> GetStr(pt.payload, "document", Empty),
          metadata |-> Get(pt.payload, metadataPath)]
    ELSE [content |-> "Point ID: " \o ToString(pt.id),
          metadata |-> DictVal("point_id", ToString(pt.id))]

\* A variant that leaves out the points it finds no payload on.
ScrollEntriesWithPayload(pts, withPayload) ==
    LET Has(pt) == withPayload /\ pt.payload # {}
        sel     == SelectSeq(pts, Has)
    IN  [i \in 1 .. Len(sel) |-> ScrollEntry(sel[i], withPayload)]

ScrollEntries(pts, withPayload) ==
    [i \in 1 .. Len(pts) |-> ScrollEntry(pts[i], withPayload)]

\* A variant that does not pass the offset on.
ScrollPageFromStart(d, t) ==
    [points |-> ScrollPoints(d, t.coll, t.limit, NoId, t.withPayload),
     next |-> ScrollNext(d, t.coll, t.limit, NoId)]

\* self._client.scroll(collection_name, limit, offset, ..., with_payload)
ScrollPage(d, t) ==
    [points |-> ScrollPoints(d, t.coll, t.limit, t.offset, t.withPayload),
     next |-> ScrollNext(d, t.coll, t.limit, t.offset)]

ScrollCall(p) ==
    LET t == tasks[p] IN
    /\ t.op = "scroll_collection" /\ t.pc = "scroll"
    /\ \E answer \in BOOLEAN :
         LET ok  == answer /\ CollExists(db, t.coll)
             u   == Logged(t, "scroll", t.coll, ok)
             pts == IF ok THEN ScrollPage(db, t).points ELSE << >>
             v   == IF ok
                    THEN Returned([u EXCEPT !.points = pts],
                           [NoResult EXCEPT
                              !.entries = ScrollEntries(pts, t.withPayload),
                              !.cursor = ScrollPage(db, t).next])
                    ELSE Returned(u, [NoResult EXCEPT !.err = "scroll"]) IN
         tasks' = [tasks EXCEPT ![p] = Finished(v)]
    /\ UNCHANGED <<nops, db, config>>

(***************************************************************************)
(* create_collection_with_config(collection_name, vector_size, distance,   *)
(* embedding_provider).  A distance string is a tuple of characters.       *)
(***************************************************************************)
UpperCase == <<"A", "B", "C", "D", "E", "G", "I", "L", "N", "O", "S", "T", "U">>

LowerCase == <<"a", "b", "c", "d", "e", "g", "i", "l", "n", "o", "s", "t", "u">>

\* str.lower()
LowerChar(ch) ==
    IF \E i \in 1 .. Len(UpperCase) : UpperCase[i] = ch
    THEN LowerCase[CHOOSE i \in 1 .. Len(UpperCase) : UpperCase[i] = ch]
    ELSE ch

Lower(str) == [i \in 1 .. Len(str) |-> LowerChar(str[i])]

\* A variant that looks the string up as it is given.
DistanceOfCaseSensitive(distance) ==
    IF distance = <<"c", "o", "s", "i", "n", "e">> THEN "COSINE"
    ELSE IF distance = <<"d", "o", "t">> THEN "DOT"
    ELSE IF distance = <<"e", "u", "c", "l", "i", "d", "e", "a", "n">> THEN "EUCLID"
    ELSE IF distance = <<"m", "a", "n", "h", "a", "t", "t", "a", "n">> THEN "MANHATTAN"
    ELSE "COSINE"

\* distance_map.get(distance.lower(), models.Distance.COSINE)
DistanceOf(distance) ==
    LET key == Lower(distance) IN
    IF key = <<"c", "o", "s", "i", "n", "e">> THEN "COSINE"
    ELSE IF key = <<"d", "o", "t">> THEN "DOT"
    ELSE IF key = <<"e", "u", "c", "l", "i", "d", "e", "a", "n">> THEN "EUCLID"
    ELSE IF key = <<"m", "a", "n", "h", "a", "t", "t", "a", "n">> THEN "MANHATTAN"
    ELSE "COSINE"

\* embedding_provider.get_vector_name() if embedding_provider else the default's
VectorNameOf(provider) ==
    IF provider # NoProvider THEN provider.vname ELSE DefaultProvider.vname

DistanceArgs ==
    { <<"c", "o", "s", "i", "n", "e">>, <<"D", "o", "t">>,
      <<"E", "U", "C", "L", "I", "D", "E", "A", "N">>,
      <<"m", "a", "n", "h", "a", "t", "t", "a", "n">>,
      <<"b", "o", "g", "u", "s">>, <<"E", "u", "c", "l", "i", "d">> }

AdminCfgs ==
    {[size |-> DefaultProvider.size, distance |-> d, provider |-> NoProvider] :
        d \in DistanceArgs}
    \cup {[size |-> AltProvider.size, distance |-> <<"c", "o", "s", "i", "n", "e">>,
           provider |-> pr] : pr \in {NoProvider, AltProvider}}

AdminCreateStart(p, name, cfg) ==
    /\ CanStart(p)
    /\ tasks' = [tasks EXCEPT ![p] =
                   [IdleTask EXCEPT !.op = "create_collection_with_config",
                                    !.pc = "create", !.name = name, !.coll = name,
                                    !.cfg = cfg, !.db0 = db]]
    /\ nops' = nops + 1
    /\ UNCHANGED <<db, config>>

\* A variant in which the failure reaches the caller.
AdminFailedRaises(t, call) == Raised(t, call)

\* except Exception: logger.error(...); return False (or None)
AdminFailed(t, call) == Returned(t, [NoResult EXCEPT !.err = call])

AdminAfterCreate(t) ==
    IF fieldIndexes # << >>
    THEN [t EXCEPT !.pc = "admin_index", !.idx = 1]
    ELSE Returned(t, [NoResult EXCEPT !.flag = TRUE])

AdminCreate(p) ==
    LET t == tasks[p] IN
    /\ t.pc = "create"
    /\ \E answer \in BOOLEAN :
         LET ok == answer /\ CreateAccepted(db, t.coll)
             u  == Logged(t, "create_collection", t.coll, ok) IN
         /\ tasks' = [tasks EXCEPT ![p] =
                        IF ok THEN AdminAfterCreate(u)
                        ELSE AdminFailed(u, "create_collection")]
         /\ db' = IF ok
                  THEN DbCreate(db, t.coll, VectorNameOf(t.cfg.provider),
                                t.cfg.size, DistanceOf(t.cfg.distance))
                  ELSE db
    /\ UNCHANGED <<nops, config>>

AdminIndex(p) ==
    LET t == tasks[p] IN
    /\ t.pc = "admin_index"
    /\ \E answer \in BOOLEAN :
         LET ok == answer /\ IndexAccepted(db, t.coll)
             u  == Logged(t, "create_payload_index", t.coll, ok) IN
         /\ tasks' = [tasks EXCEPT ![p] =
                        IF ~ok
                        THEN AdminFailed(u, "create_payload_index")
                        ELSE IF t.idx < Len(fieldIndexes)
                             THEN [u EXCEPT !.idx = t.idx + 1]
                             ELSE Returned(u, [NoResult EXCEPT !.flag = TRUE])]
         /\ db' = IF ok THEN DbIndex(db, t.coll, fieldIndexes[t.idx]) ELSE db
    /\ UNCHANGED <<nops, config>>

(***************************************************************************)
(* delete_collection(collection_name)                                      *)
(***************************************************************************)
DeleteStart(p, name) ==
    /\ CanStart(p)
    /\ tasks' = [tasks EXCEPT ![p] =
                   [IdleTask EXCEPT !.op = "delete_collection", !.pc = "delete",
                                    !.name = name, !.coll = name, !.db0 = db]]
    /\ nops' = nops + 1
    /\ UNCHANGED <<db, config>>

DeleteCall(p) ==
    LET t == tasks[p] IN
    /\ t.pc = "delete"
    /\ \E ok \in BOOLEAN :
         LET u == Logged(t, "delete_collection", t.coll, ok) IN
         /\ tasks' = [tasks EXCEPT ![p] =
                        IF ok THEN Returned(u, [NoResult EXCEPT !.flag = TRUE])
                        ELSE AdminFailed(u, "delete_collection")]
         /\ db' = IF ok THEN DbDelete(db, t.coll) ELSE db
    /\ UNCHANGED <<nops, config>>

(***************************************************************************)
(* get_detailed_collection_info(collection_name)                           *)
(***************************************************************************)
InfoStart(p, name) ==
    /\ CanStart(p)
    /\ tasks' = [tasks EXCEPT ![p] =
                   [IdleTask EXCEPT !.op = "get_detailed_collection_info",
                                    !.pc = "info_exists", !.name = name,
                                    !.coll = name, !.db0 = db]]
    /\ nops' = nops + 1
    /\ UNCHANGED <<db, config>>

InfoExists(p) ==
    LET t == tasks[p] IN
    /\ t.pc = "info_exists"
    /\ \E ok \in BOOLEAN :
         LET u == Logged(t, "collection_exists", t.coll, ok) IN
         tasks' = [tasks EXCEPT ![p] =
                     IF ~ok THEN AdminFailed(u, "collection_exists")
                     ELSE IF CollExists(db, t.coll) THEN [u EXCEPT !.pc = "info_get"]
                     ELSE Returned(u, NoResult)]
    /\ UNCHANGED <<nops, db, config>>

\* info.config.params.vectors as get_collection reports it: the VectorParams
\* themselves for a collection with one unnamed vector, a dict from slot
\* name to VectorParams for a collection with named vectors.
VectorsConfig(coll) ==
    IF coll.slot = None
    THEN [named |-> FALSE, size |-> coll.size, distance |-> coll.distance,
          slots |-> {}]
    ELSE [named |-> TRUE, size |-> 0, distance |-> None,
          slots |-> {[name |-> coll.slot, size |-> coll.size,
                      distance |-> coll.distance]}]

\* hasattr(vectors_config, 'size'), hasattr(vectors_config, 'distance'): a
\* dict has neither attribute.
HasParams(vc) == ~vc.named

InfoOf(name, coll) ==
    LET vc == VectorsConfig(coll) IN
    [name |-> name, points_count |-> Cardinality(coll.points),
     vector_size |-> IF HasParams(vc) THEN <<vc.size>> ELSE << >>,
     distance_metric |-> IF HasParams(vc) THEN vc.distance ELSE None]

InfoGet(p) ==
    LET t == tasks[p] IN
    /\ t.pc = "info_get"
    /\ \E answer \in BOOLEAN :
         LET ok == answer /\ CollExists(db, t.coll)
             u  == Logged(t, "get_collection", t.coll, ok) IN
         tasks' = [tasks EXCEPT ![p] =
                     IF ok
                     THEN Returned(u, [NoResult EXCEPT !.info = InfoOf(t.coll, db[t.coll])])
                     ELSE AdminFailed(u, "get_collection")]
    /\ UNCHANGED <<nops, db, config>>

(***************************************************************************)
(* Another client of the same database writes a point without payload      *)
(* (creating the collection when it is absent), between two operations.    *)
(***************************************************************************)
ForeignPoint(id) ==
    [id |-> id, vname |-> DefaultProvider.vname, dim |-> DefaultProvider.size,
     vec |-> "a", payload |-> {}]

ForeignWrite(p, name, id) ==
    LET d == IF CollExists(db, name) THEN db
             ELSE DbCreate(db, name, DefaultProvider.vname,
                           DefaultProvider.size, "COSINE") IN
    /\ CanStart(p)
    /\ TotalPoints(db) < MaxPoints
    /\ id \notin UsedIds(db)
    /\ UpsertAccepted(d, name, <<ForeignPoint(id)>>)
    /\ db' = DbUpsert(d, name, <<ForeignPoint(id)>>)
    /\ tasks' = [tasks EXCEPT ![p] = [IdleTask EXCEPT !.op = "foreign", !.db0 = db']]
    /\ nops' = nops + 1
    /\ UNCHANGED config

(***************************************************************************)
(* The specification: one caller, whose operations run one after another.  *)
(***************************************************************************)
EmptyDb == [c \in Names |-> NoColl]

StoreEntries ==
    { [content |-> "a", metadata |-> NoneVal, id |-> NoId],
      [content |-> "b", metadata |-> DictVal("k", "v"), id |-> NoId] }

NameArgs == {None, "c2"}

Limits == 1 .. MaxLimit

(***************************************************************************)
(* _create_secure_qdrant_connector: the API key that the server passes to  *)
(* the connector.  A string is a sequence of characters, an Optional[str]  *)
(* a sequence of no string or of one.                                      *)
(***************************************************************************)
NoStr == << >>

HttpsScheme == <<"h", "t", "t", "p", "s", ":", "/", "/">>

HttpScheme == <<"h", "t", "t", "p", ":", "/", "/">>

Localhost == <<"l", "o", "c", "a", "l", "h", "o", "s", "t">>

Loopback == <<"1", "2", "7", ".", "0", ".", "0", ".", "1">>

\* str.startswith(prefix)
StartsWith(s, prefix) ==
    Len(s) >= Len(prefix) /\ SubSeq(s, 1, Len(prefix)) = prefix

\* The truth value of an Optional[str]: None and "" are false.
Truthy(o) == o # NoStr /\ o[1] # << >>

\* location.startswith("https://") or location.startswith("localhost") or
\* location.startswith("127.0.0.1") or location.startswith("http://localhost")
\* or location.startswith("http://127.0.0.1")
SecureLocation(location) ==
    \/ StartsWith(location, HttpsScheme)
    \/ StartsWith(location, Localhost)
    \/ StartsWith(location, Loopback)
    \/ StartsWith(location, HttpScheme \o Localhost)
    \/ StartsWith(location, HttpScheme \o Loopback)

\* if api_key and location: if not (...): api_key = None
KeyFor(apiKey, location) ==
    IF Truthy(apiKey) /\ Truthy(location) /\ ~SecureLocation(location[1])
    THEN NoStr
    ELSE apiKey

\* The settings before the connector is made, and the connector's key after.
NoConnection == [location |-> NoStr, api_key |-> NoStr, key |-> NoStr, made |-> FALSE]

\* return QdrantConnector(location, api_key, ...)
CreateSecureConnector ==
    /\ ~connection.made
    /\ connection' = [connection EXCEPT
                         !.key = KeyFor(connection.api_key, connection.location),
                         !.made = TRUE]
    /\ UNCHANGED <<nops, db, tasks, defaultName, metadataPath, fieldIndexes, settings>>

\* The connector by itself, with no server in front of it.
ConnectorOnly ==
    [read_only |-> FALSE, enable_collection_management |-> FALSE,
     enable_resources |-> FALSE]

Init ==
    /\ settings = ConnectorOnly
    /\ connection = NoConnection
    /\ db = EmptyDb
    /\ tasks = [p \in Procs |-> IdleTask]
    /\ defaultName \in DefaultNames
    /\ metadataPath \in MetadataPaths
    /\ fieldIndexes \in FieldIndexSets
    /\ nops = 0

Start(p) ==
    \/ \E e \in StoreEntries, n \in NameArgs : StoreStart(p, e, n)
    \/ \E es \in Batches, n \in NameArgs : BatchStoreStart(p, es, n)
    \/ \E q \in Texts, n \in NameArgs, l \in Limits : SearchStart(p, q, n, l)
    \/ \E q \in Texts, n \in NameArgs, m \in 0 .. 1 :
          HybridStart(p, q, n, MaxLimit, m)
    \/ \E n \in NameArgs, l \in Limits, o \in {NoId, tasks[p].trav.cursor}, w \in BOOLEAN :
          ScrollStart(p, n, l, o, w)
    \/ \E cfg \in AdminCfgs : AdminCreateStart(p, "c2", cfg)
    \/ \E n \in Names : DeleteStart(p, n)
    \/ \E n \in Names : InfoStart(p, n)
    \/ \E id \in Ids : ForeignWrite(p, "c2", id)

Step(p) ==
    \/ EnsureExistsCheck(p)
    \/ EnsureCreate(p)
    \/ EnsureIndex(p)
    \/ StoreEmbed(p)
    \/ StoreUpsert(p)
    \/ BatchEmbed(p)
    \/ BatchUpsert(p)
    \/ ExistsCheck(p)
    \/ SearchEmbed(p)
    \/ SearchQuery(p)
    \/ HybridEmbed(p)
    \/ HybridQuery(p)
    \/ ScrollCall(p)
    \/ AdminCreate(p)
    \/ AdminIndex(p)
    \/ DeleteCall(p)
    \/ InfoExists(p)
    \/ InfoGet(p)

Next == \E p \in Single : Start(p) \/ Step(p)

Spec == Init /\ [][Next]_vars

(***************************************************************************)
(* Two callers whose operations interleave at every await.                 *)
(*   SpecRace   both call store                                            *)
(*   SpecConc   both call store, batch_store and delete_collection         *)
(***************************************************************************)
WriteStep(p) ==
    \/ EnsureExistsCheck(p)
    \/ EnsureCreate(p)
    \/ EnsureIndex(p)
    \/ StoreEmbed(p)
    \/ StoreUpsert(p)

NextRace ==
    \E p \in Procs :
       \/ \E e \in StoreEntries : StoreStart(p, e, "c2")
       \/ WriteStep(p)

SpecRace == Init /\ [][NextRace]_vars

\* One entry, for the callers of SpecConc.
OneEntry == [content |-> "a", metadata |-> NoneVal, id |-> NoId]

NextConc ==
    \E p \in Procs :
       \/ StoreStart(p, OneEntry, "c2")
       \/ BatchStoreStart(p, <<OneEntry>>, "c2")
       \/ DeleteStart(p, "c2")
       \/ WriteStep(p)
       \/ BatchEmbed(p)
       \/ BatchUpsert(p)
       \/ DeleteCall(p)

SpecConc == Init /\ [][NextConc]_vars


(***************************************************************************)
(* One caller that creates collections only through the connector (the     *)
(* first store on a name, create_collection_with_config) and reads their   *)
(* schema back with get_detailed_collection_info.                          *)
(***************************************************************************)
NextSchema ==
    \E p \in Single :
       \/ \E e \in StoreEntries : StoreStart(p, e, "c1")
       \/ \E cfg \in AdminCfgs : AdminCreateStart(p, "c2", cfg)
       \/ \E n \in Names : InfoStart(p, n)
       \/ WriteStep(p)
       \/ AdminCreate(p)
       \/ AdminIndex(p)
       \/ InfoExists(p)
       \/ InfoGet(p)

SpecSchema == Init /\ [][NextSchema]_vars

(***************************************************************************)
(* get_collection_names()                                                  *)
(***************************************************************************)
NameSeq == <<"c1", "c2">>

NamesStart(p) ==
    /\ CanStart(p)
    /\ tasks' = [tasks EXCEPT ![p] =
                   [IdleTask EXCEPT !.op = "get_collection_names",
                                    !.pc = "names", !.db0 = db]]
    /\ nops' = nops + 1
    /\ UNCHANGED <<db, config>>

\* response = await self._client.get_collections(), outside any try
NamesCall(p) ==
    LET t == tasks[p] IN
    /\ t.pc = "names"
    /\ \E ok \in BOOLEAN :
         LET u == Logged(t, "get_collections", None, ok)
             exists(c) == CollExists(db, c) IN
         tasks' = [tasks EXCEPT ![p] =
                     IF ok
                     THEN Returned(u, [NoResult EXCEPT
                                          !.names = SelectSeq(NameSeq, exists)])
                     ELSE Raised(u, "get_collections")]
    /\ UNCHANGED <<nops, db, config>>

(***************************************************************************)
(* The server: the tools and resources that QdrantMCPServer registers      *)
(* according to its settings, each one an invocation of a connector        *)
(* operation with the arguments the tool passes.  The strings the tools    *)
(* make of the results are left out.                                       *)
(***************************************************************************)
Settings ==
    [read_only : BOOLEAN, enable_collection_management : BOOLEAN,
     enable_resources : BOOLEAN]

\* setup_tools, setup_collection_management_tools,
\* setup_advanced_search_tools, setup_resources
Registration(readOnly, management, resources, tool) ==
    CASE tool = "qdrant_find" -> TRUE
      [] tool = "qdrant_store" -> ~readOnly
      [] tool \in {"list_collections", "get_collection_info"} -> management
      [] tool \in {"create_collection", "delete_collection"} ->
            management /\ ~readOnly
      [] tool \in {"hybrid_search", "scroll_collection"} -> TRUE
      [] tool = "qdrant_store_batch" -> ~readOnly
      [] tool \in {"collections_overview", "collection_schema"} -> resources
      [] OTHER -> FALSE

\* A variant that registers the tools as if read_only were off.
RegisteredWritable(s, tool) ==
    Registration(FALSE, s.enable_collection_management, s.enable_resources, tool)

Registered(s, tool) ==
    Registration(s.read_only, s.enable_collection_management,
                 s.enable_resources, tool)

\* make_partial_function(tool, {"collection_name": settings.collection_name})
ToolCollection(n) == IF defaultName # None THEN defaultName ELSE n

\* A tool that returns a message without calling the connector: the task
\* keeps which tool it was and the collection it was called for.
Declined(p, tool, n) ==
    /\ CanStart(p)
    /\ tasks' = [tasks EXCEPT ![p] =
                   Returned([IdleTask EXCEPT !.op = tool, !.name = n, !.db0 = db],
                            NoResult)]
    /\ nops' = nops + 1
    /\ UNCHANGED <<db, config>>

\* search(query, collection_name=collection_name, limit=search_limit)
ToolFind(p, query, n) ==
    /\ Registered(settings, "qdrant_find")
    /\ SearchStart(p, query, ToolCollection(n), MaxLimit)

\* batch_store([batch_entry], collection_name); a metadata string that is
\* not JSON ends the tool before.
ToolStore(p, entry, n, valid) ==
    /\ Registered(settings, "qdrant_store")
    /\ IF valid THEN BatchStoreStart(p, <<entry>>, ToolCollection(n))
       ELSE Declined(p, "qdrant_store declined", n)

ToolListCollections(p) ==
    /\ Registered(settings, "list_collections")
    /\ NamesStart(p)

ToolGetCollectionInfo(p, n) ==
    /\ Registered(settings, "get_collection_info")
    /\ InfoStart(p, n)

\* create_collection_with_config(collection_name, vector_size, distance),
\* vector_size being that of a known embedding model; the tool ends before
\* when it finds no model.
ToolCfgs == {cfg \in AdminCfgs : cfg.provider = NoProvider}

ToolCreateCollection(p, n, cfg, found) ==
    /\ Registered(settings, "create_collection")
    /\ IF found THEN AdminCreateStart(p, n, cfg)
       ELSE Declined(p, "create_collection declined", n)

\* A variant that reports success whatever the connector returned.
DeleteReportAlways(t) == "success"

\* What the delete_collection tool returns after the connector's
\* delete_collection: "Successfully deleted ..." if success, "Failed to
\* delete ..." if not, "Error deleting ..." on an exception.
DeleteReport(t) ==
    IF t.result.kind = "raised" THEN "error"
    ELSE IF t.result.flag THEN "success"
    ELSE "failed"

\* if not confirm: return "Please set confirm=True ..."
ToolDeleteCollection(p, n, confirm) ==
    /\ Registered(settings, "delete_collection")
    /\ IF confirm THEN DeleteStart(p, n)
       ELSE Declined(p, "delete_collection declined", n)

\* min_score=min_score if min_score > 0 else None
ToolHybridSearch(p, query, n, limit, minScore) ==
    /\ Registered(settings, "hybrid_search")
    /\ HybridStart(p, query, n, limit, minScore)

\* offset=offset if offset else None
ToolScrollCollection(p, n, limit, offset) ==
    /\ Registered(settings, "scroll_collection")
    /\ ScrollStart(p, n, limit, offset, TRUE)

\* batch_store(batch_entries, collection_name); an entry without content or
\* with a metadata string that is not JSON ends the tool before.
ToolStoreBatch(p, entries, n, valid) ==
    /\ Registered(settings, "qdrant_store_batch")
    /\ IF valid THEN BatchStoreStart(p, entries, n)
       ELSE Declined(p, "qdrant_store_batch declined", n)

\* qdrant://collections: get_collection_names, then
\* get_detailed_collection_info for each name of the list.
ResourceOverview(p) ==
    /\ Registered(settings, "collections_overview")
    /\ NamesStart(p)

ResourceOverviewInfo(p, n) ==
    LET t == tasks[p] IN
    /\ Registered(settings, "collections_overview")
    /\ t.op = "get_collection_names" /\ t.result.kind = "returned"
    /\ \E i \in 1 .. Len(t.result.names) : t.result.names[i] = n
    /\ InfoStart(p, n)

\* qdrant://collection/{collection_name}/schema
ResourceSchema(p, n) ==
    /\ Registered(settings, "collection_schema")
    /\ InfoStart(p, n)

\* A database that holds what a store of the connector has left in "c1".
StoredDb ==
    LET entry   == [content |-> "a", metadata |-> DictVal("k", "v"), id |-> NoId]
        created == DbCreate(EmptyDb, "c1", DefaultProvider.vname,
                            DefaultProvider.size, "COSINE")
        indexed == [created EXCEPT !["c1"].indexes = Range(fieldIndexes)] IN
    DbUpsert(indexed, "c1", <<MakePoint(1, Embed("a"), entry)>>)

InitServer ==
    /\ settings \in Settings
    /\ connection = NoConnection
    /\ defaultName \in DefaultNames
    /\ metadataPath \in MetadataPaths
    /\ fieldIndexes \in FieldIndexSets
    /\ db \in {EmptyDb, StoredDb}
    /\ tasks = [p \in Procs |-> IdleTask]
    /\ nops = 0

\* The arguments of the invocations.
ServerCfgs ==
    {cfg \in ToolCfgs : cfg.distance \in {<<"c", "o", "s", "i", "n", "e">>, <<"D", "o", "t">>}}

ServerBatches == {es \in Batches : Len(es) = MaxBatch}

Invoke(p) ==
    \/ \E q \in Texts, n \in Names : ToolFind(p, q, n)
    \/ \E e \in BatchEntries, valid \in BOOLEAN : ToolStore(p, e, "c2", valid)
    \/ ToolListCollections(p)
    \/ \E n \in Names : ToolGetCollectionInfo(p, n)
    \/ \E cfg \in ServerCfgs, found \in BOOLEAN :
          ToolCreateCollection(p, "c2", cfg, found)
    \/ \E n \in Names, confirm \in BOOLEAN : ToolDeleteCollection(p, n, confirm)
    \/ \E n \in Names, m \in 0 .. 1 : ToolHybridSearch(p, "a", n, MaxLimit, m)
    \/ \E n \in Names, l \in Limits, o \in {NoId, tasks[p].trav.cursor} :
          ToolScrollCollection(p, n, l, o)
    \/ \E es \in ServerBatches, valid \in BOOLEAN : ToolStoreBatch(p, es, "c2", valid)
    \/ ResourceOverview(p)
    \/ \E n \in Names : ResourceOverviewInfo(p, n)
    \/ \E n \in Names : ResourceSchema(p, n)

\* The steps of the connector operations that the tools reach.
ServerStep(p) ==
    \/ EnsureExistsCheck(p)
    \/ EnsureCreate(p)
    \/ EnsureIndex(p)
    \/ BatchEmbed(p)
    \/ BatchUpsert(p)
    \/ ExistsCheck(p)
    \/ SearchEmbed(p)
    \/ SearchQuery(p)
    \/ HybridEmbed(p)
    \/ HybridQuery(p)
    \/ ScrollCall(p)
    \/ AdminCreate(p)
    \/ AdminIndex(p)
    \/ DeleteCall(p)
    \/ InfoExists(p)
    \/ InfoGet(p)
    \/ NamesCall(p)

NextServer == \E p \in Single : Invoke(p) \/ ServerStep(p)

SpecServer == InitServer /\ [][NextServer]_vars

(***************************************************************************)
(* The construction of the connector, for the locations and keys that the  *)
(* settings may hold.                                                      *)
(***************************************************************************)
Schemes == {<< >>, HttpScheme, HttpsScheme}

Hosts ==
    { Localhost, Loopback,
      Localhost \o <<".", "e", "v", "i", "l", ".", "c", "o", "m">>,
      Loopback \o <<"0">>,
      Loopback \o <<".", "e", "v", "i", "l", ".", "c", "o", "m">>,
      <<"q", "d", "r", "a", "n", "t", ".", "e", "x", "a", "m", "p", "l", "e">>,
      <<"1", "0", ".", "0", ".", "0", ".", "5">> }

Ports == {<< >>, <<":", "6", "3", "3", "3">>}

Locations ==
    {NoStr, << << >> >>}
    \cup {<<s \o h \o pt>> : s \in Schemes, h \in Hosts, pt \in Ports}

ApiKeys == {NoStr, << << >> >>, << <<"k">> >>}

InitKey ==
    /\ connection \in {[NoConnection EXCEPT !.location = l, !.api_key = k] :
                          l \in Locations, k \in ApiKeys}
    /\ settings = ConnectorOnly
    /\ db = EmptyDb
    /\ tasks = [p \in Procs |-> IdleTask]
    /\ defaultName = None
    /\ metadataPath = "metadata"
    /\ fieldIndexes = << >>
    /\ nops = 0

NextKey == CreateSecureConnector

SpecKey == InitKey /\ [][NextKey]_vars

(***************************************************************************)
(* Properties.                                                             *)
(***************************************************************************)
Done(t, op) == t.op = op /\ t.pc = "done"

Failed(t) == {i \in 1 .. Len(t.log) : ~t.log[i].ok}

AsEntry(content, metadata) == [content |-> content, metadata |-> metadata]

\* C1: a search(entry.content, c) made right after a store(entry, c) that
\* completed without exception, with a limit of at least the number of
\* points of c, returns an Entry with the stored content and the stored
\* metadata, whatever the value of the metadata-key constant.
C1_RoundTrip ==
    \A p \in Procs :
       LET t == tasks[p] IN
       ( /\ Done(t, "search") /\ t.result.kind = "returned"
         /\ t.before.stored
         /\ t.query = t.before.content
         /\ t.limit >= Cardinality(db[t.coll].points) )
       => \E i \in 1 .. Len(t.result.entries) :
             t.result.entries[i] = AsEntry(t.before.content, t.before.metadata)

\* The same round trip, for the case that the constant is "metadata".
C1_RoundTripDefaultKey == metadataPath = "metadata" => C1_RoundTrip

C1_Witness ==
    \E p \in Procs :
       LET t == tasks[p] IN
       /\ Done(t, "search") /\ t.result.kind = "returned"
       /\ metadataPath = "metadata"
       /\ t.before.stored
       /\ t.query = t.before.content
       /\ t.before.metadata # NoneVal
       /\ t.limit >= Cardinality(db[t.coll].points)

\* C2: of two operations that ensure a collection exists (store or
\* batch_store), one right after the other on one name, the first, when its
\* _ensure_collection_exists returned, has issued one create_collection if
\* the collection was absent and none if it was there, and the second
\* issues none.
C2_IdempotentCreate ==
    \A p \in Procs :
       LET t == tasks[p] IN
       (t.op \in {"store", "batch_store"} /\ t.before.ensured)
       => /\ Calls(t, "create_collection") = {}
          /\ t.before.creates = IF t.before.absent THEN 1 ELSE 0

C2_Witness ==
    \E p \in Procs :
       LET t == tasks[p] IN
       /\ t.op \in {"store", "batch_store"} /\ t.pc = "done" /\ t.ensured
       /\ t.result.kind = "returned" /\ Failed(t) = {} /\ Calls(t, "upsert") # {}
       /\ t.before.ensured /\ t.before.absent /\ t.before.creates = 1

\* A finished read of a collection that the existence check found absent.
AbsentRead(t) ==
    /\ t.op \in {"search", "hybrid_search", "scroll_collection"}
    /\ t.pc = "done"
    /\ t.coll \in Names
    /\ ~CollExists(t.db0, t.coll)
    /\ Len(t.log) >= 1 /\ t.log[1].ok

\* C3: search, hybrid_search and scroll_collection, called with the name of
\* a collection that the existence check finds absent, return an empty
\* sequence (scroll_collection: no cursor either) without raising, having
\* called neither the embedding provider nor any other operation of the
\* database, and leave the database as it was.
C3_AbsentCollectionIsEmpty ==
    \A p \in Procs :
       LET t == tasks[p] IN
       AbsentRead(t) =>
          /\ t.result.kind = "returned"
          /\ t.result.entries = << >>
          /\ t.result.cursor = NoId
          /\ Len(t.log) = 1 /\ t.log[1].call = "collection_exists"
          /\ db = t.db0

C3_Witness ==
    \E p \in Procs :
       /\ AbsentRead(tasks[p])
       /\ tasks[p].op = "hybrid_search"
       /\ \E c \in Names : CollExists(db, c)

\* C4: batch_store returns either the number of its entries or 0, whatever
\* the embedding provider returns.
C4_AllOrNothing ==
    \A p \in Procs :
       LET t == tasks[p] IN
       (Done(t, "batch_store") /\ t.result.kind = "returned")
       => t.result.count \in {0, Len(t.entries)}


NoRepeat(seq) == \A i, j \in 1 .. Len(seq) : i # j => seq[i] # seq[j]

CollIds(coll) == {pt.id : pt \in coll.points}

ScrollSucceeded(t) ==
    /\ Done(t, "scroll_collection")
    /\ Calls(t, "scroll") # {}
    /\ Failed(t) = {}

MetricFor(distance) ==
    CASE distance = <<"c", "o", "s", "i", "n", "e">> -> "COSINE"
      [] distance = <<"D", "o", "t">> -> "DOT"
      [] distance = <<"E", "U", "C", "L", "I", "D", "E", "A", "N">> -> "EUCLID"
      [] distance = <<"m", "a", "n", "h", "a", "t", "t", "a", "n">> -> "MANHATTAN"
      [] OTHER -> "COSINE"

AdminCreated(t) ==
    /\ t.op = "create_collection_with_config"
    /\ \E i \in Calls(t, "create_collection") : t.log[i].ok

\* C7: a collection that create_collection_with_config has created has the
\* metric its distance string names, read without regard to case, and the
\* cosine metric for every other string; when no call of the operation
\* failed it returns true.
C7_DistanceFallback ==
    \A p \in Procs :
       LET t == tasks[p] IN
       AdminCreated(t) =>
          /\ db[t.coll].distance = MetricFor(t.cfg.distance)
          /\ db[t.coll].distance \in {"COSINE", "DOT", "EUCLID", "MANHATTAN"}
          /\ (t.pc = "done" /\ Failed(t) = {}) =>
                (t.result.kind = "returned" /\ t.result.flag)

C7_Witness ==
    \E p \in Procs :
       LET t == tasks[p] IN
       /\ AdminCreated(t) /\ t.pc = "done" /\ t.result.flag
       /\ t.cfg.distance = <<"b", "o", "g", "u", "s">>
       /\ db[t.coll].distance = "COSINE"

AssertsName(t) == t.op \in {"store", "batch_store", "scroll_collection"}

\* C8: store, batch_store and scroll_collection called without a name on a
\* connector without default name end at once with an AssertionError, having
\* called neither the embedding provider nor the database, which is as it
\* was; called with a name they work on that name, whatever the default.
C8_NamePrecondition ==
    \A p \in Procs :
       LET t == tasks[p] IN
       AssertsName(t) =>
          /\ (t.name = None /\ defaultName = None) =>
                /\ t.pc = "done"
                /\ t.result.kind = "raised" /\ t.result.err = "AssertionError"
                /\ t.log = << >>
                /\ db = t.db0
          /\ t.name \in Names => t.coll = t.name
          /\ (t.name = None /\ defaultName # None) => t.coll = defaultName

C8_Witness ==
    \E p \in Procs :
       LET t == tasks[p] IN
       /\ t.op = "batch_store" /\ t.name = None /\ defaultName = None
       /\ t.result.err = "AssertionError"
       /\ \E c \in Names : CollExists(db, c)

\* C9: a store that returns has its upsert as last call, and the upsert
\* succeeded and left the point in the collection; a store in which a call
\* failed raises that call's failure, and the failed call is its last call;
\* after a failed embedding call there is no upsert.
C9_StoreRaises ==
    \A p \in Procs :
       LET t == tasks[p] IN
       Done(t, "store") =>
          /\ t.result.kind = "returned" =>
                /\ t.log # << >>
                /\ t.log[Len(t.log)].call = "upsert" /\ t.log[Len(t.log)].ok
                /\ t.points[1] \in db[t.coll].points
          /\ Failed(t) # {} =>
                /\ t.result.kind = "raised"
                /\ Failed(t) = {Len(t.log)}
                /\ t.result.err = t.log[Len(t.log)].call
                /\ t.log[Len(t.log)].call \in {"collection_exists", "create_collection",
                      "create_payload_index", "embed_documents", "upsert"}
          /\ (\E i \in Calls(t, "embed_documents") : ~t.log[i].ok) =>
                Calls(t, "upsert") = {}

C9_Witness ==
    \E p \in Procs :
       LET t == tasks[p] IN
       /\ Done(t, "store") /\ t.result.kind = "raised"
       /\ t.result.err = "upsert"
       /\ db = t.db0 /\ CollExists(db, t.coll)

\* C10: a batch_store on a resolvable name never raises: it returns, and
\* returns 0 when one of its calls failed.
C10_BatchNeverRaises ==
    \A p \in Procs :
       LET t == tasks[p] IN
       (Done(t, "batch_store") /\ t.coll # None) =>
          /\ t.result.kind = "returned"
          /\ Failed(t) # {} => t.result.count = 0

\* C11: a hybrid_search or scroll_collection on a resolvable name never
\* raises: it returns, and returns the empty result when a call failed.
C11_ReadsNeverRaise ==
    \A p \in Procs :
       LET t == tasks[p] IN
       ( /\ t.op \in {"hybrid_search", "scroll_collection"}
         /\ t.pc = "done" /\ t.coll # None )
       => /\ t.result.kind = "returned"
          /\ Failed(t) # {} =>
                (t.result.entries = << >> /\ t.result.cursor = NoId)

AdminOp(t) ==
    t.op \in {"get_detailed_collection_info", "create_collection_with_config",
              "delete_collection"}

\* C12: get_detailed_collection_info, create_collection_with_config and
\* delete_collection always return; when one of their calls failed the first
\* returns None and the other two return false, and the other two return
\* true exactly when they made at least one call and none failed.
C12_AdminNeverRaises ==
    \A p \in Procs :
       LET t == tasks[p] IN
       (AdminOp(t) /\ t.pc = "done") =>
          /\ t.result.kind = "returned"
          /\ Failed(t) # {} => (t.result.info = NoInfo /\ ~t.result.flag)
          /\ t.op # "get_detailed_collection_info" =>
                (t.result.flag <=> (t.log # << >> /\ Failed(t) = {}))

C12_Witness ==
    \E p \in Procs :
       LET t == tasks[p] IN
       /\ t.op = "create_collection_with_config" /\ t.pc = "done"
       /\ Calls(t, "create_collection") # {} /\ t.log[1].ok
       /\ Failed(t) # {} /\ ~t.result.flag
       /\ CollExists(db, t.coll)

\* C13: whenever a store or batch_store is about to issue its upsert (the
\* embedding call has returned), its collection exists in the database,
\* whatever the other caller's operations did in the meantime.
C13_CollectionExistsAtWrite ==
    \A p \in Procs :
       LET t == tasks[p] IN
       (t.op \in {"store", "batch_store"} /\ t.pc = "upsert")
       => CollExists(db, t.coll)

\* C14: every point that a store or batch_store has sent in an upsert to a
\* collection has its vector under the slot name the collection defines, with
\* that slot's size.
C14_VectorNameConsistency ==
    \A p \in Procs :
       LET t == tasks[p] IN
       ( /\ t.op \in {"store", "batch_store"}
         /\ Calls(t, "upsert") # {}
         /\ CollExists(db, t.coll) )
       => \A i \in 1 .. Len(t.points) : PointFits(db[t.coll], t.points[i])

\* Two store calls on one collection that both began while it was absent.
Racing(t, u) ==
    /\ Done(t, "store") /\ Done(u, "store")
    /\ t.coll = u.coll
    /\ ~CollExists(t.db0, t.coll) /\ ~CollExists(u.db0, u.coll)

\* If t raised, it is because the service refused its create_collection.
OnlyLostCreate(t) == t.result.kind = "raised" => t.result.err = "conflict"

Written(t) == t.points # << >> /\ t.points[1] \in db[t.coll].points

\* C15: with two callers of store and no other operation, a store that
\* returns has its point in the collection, a store that does not return
\* raises, and of two stores that raced for an absent collection in which
\* nothing failed but the create that the service refused to the one that
\* lost the race, at least one has written its point.
C15_RacingFirstWriters ==
    \A p \in Procs :
       LET t == tasks[p] IN
       Done(t, "store") =>
          /\ t.result.kind \in {"returned", "raised"}
          /\ t.result.kind = "returned" => Written(t)
          /\ \A q \in Procs \ {p} :
                LET u == tasks[q] IN
                (Racing(t, u) /\ OnlyLostCreate(t) /\ OnlyLostCreate(u))
                => (\/ t.result.kind = "returned" /\ Written(t)
                    \/ u.result.kind = "returned" /\ Written(u))

C15_Witness ==
    \E p \in Procs, q \in Procs :
       LET t == tasks[p]
           u == tasks[q] IN
       /\ p # q /\ Racing(t, u)
       /\ t.result.kind = "raised" /\ t.result.err = "conflict"
       /\ u.result.kind = "returned" /\ Written(u) /\ Failed(u) = {}

IndexCalls(t) == Calls(t, "create_payload_index")

Created(t) == \E i \in Calls(t, "create_collection") : t.log[i].ok

\* C16: create_payload_index is called only by an operation that has itself
\* created the collection before (a successful create_collection for the
\* same name earlier in its calls), at most once per configured field; an
\* operation that began with the collection there calls it not at all; and
\* when _ensure_collection_exists has returned after creating the collection
\* (or create_collection_with_config has returned true), it has called it
\* once per configured field and the collection has every configured index.
C16_IndexesOnlyOnCreate ==
    \A p \in Procs :
       LET t == tasks[p] IN
       /\ \A j \in IndexCalls(t) :
             \E i \in Calls(t, "create_collection") :
                i < j /\ t.log[i].ok /\ t.log[i].coll = t.log[j].coll
       /\ Cardinality(IndexCalls(t)) <= Len(fieldIndexes)
       /\ CollExists(t.db0, t.coll) => IndexCalls(t) = {}
       /\ ( \/ t.ensured /\ Created(t)
            \/ t.op = "create_collection_with_config" /\ t.result.flag )
          => /\ Cardinality(IndexCalls(t)) = Len(fieldIndexes)
             /\ Range(fieldIndexes) \subseteq db[t.coll].indexes

C16_Witness ==
    \E p \in Procs :
       LET t == tasks[p] IN
       /\ Done(t, "store") /\ t.result.kind = "returned"
       /\ t.ensured /\ Created(t)
       /\ Len(fieldIndexes) = 2
       /\ db[t.coll].indexes = Range(fieldIndexes)
       /\ \E c \in Names \ {t.coll} : CollExists(db, c) /\ db[c].indexes = {}

\* C18: search and hybrid_search called without a name on a connector
\* without default name call the database with no unresolved (None)
\* collection name, and end with an AssertionError, having called nothing.
C18_SearchNamePrecondition ==
    \A p \in Procs :
       LET t == tasks[p] IN
       (t.op \in {"search", "hybrid_search"} /\ t.name = None /\ defaultName = None) =>
          /\ \A i \in 1 .. Len(t.log) : t.log[i].coll # None
          /\ t.pc = "done" =>
                /\ t.result.kind = "raised" /\ t.result.err = "AssertionError"
                /\ t.log = << >>

Injective(f) == \A i, j \in DOMAIN f : f[i] = f[j] => i = j

\* The point pt holds the content and metadata of entry e, under e's id when
\* e has one.
HoldsEntry(pt, e) ==
    /\ pt.payload = MakePayload(e.content, e.metadata)
    /\ e.id # NoId => pt.id = e.id

\* C19: a batch_store that returns n has left n points in the collection,
\* one for each of n of its entries, each with its entry's content and
\* metadata (and its id, when the entry has one).
C19_BatchCount ==
    \A p \in Procs :
       LET t == tasks[p]
           n == t.result.count IN
       (Done(t, "batch_store") /\ t.result.kind = "returned") =>
          /\ n <= Len(t.entries)
          /\ n > 0 =>
               \E g \in [1 .. n -> 1 .. Len(t.entries)] :
               \E f \in [1 .. n -> db[t.coll].points] :
                  /\ Injective(g) /\ Injective(f)
                  /\ \A i \in 1 .. n : HoldsEntry(f[i], t.entries[g[i]])

InfoReturned(t) ==
    /\ t.op = "get_detailed_collection_info" /\ t.pc = "done"
    /\ t.result.kind = "returned" /\ t.result.info # NoInfo

\* C20: for a collection that the connector created,
\* get_detailed_collection_info returns a CollectionInfo whose vector_size
\* and distance_metric are the size and the metric of the collection.
C20_SchemaReadBack ==
    \A p \in Procs :
       LET t == tasks[p] IN
       InfoReturned(t) =>
          /\ t.result.info.name = t.coll
          /\ t.result.info.vector_size = <<db[t.coll].size>>
          /\ t.result.info.distance_metric = db[t.coll].distance

WriteCalls ==
    {"create_collection", "create_payload_index", "upsert", "delete_collection"}

NoWriteCall(t) == \A i \in 1 .. Len(t.log) : t.log[i].call \notin WriteCalls

\* C17: on a server configured read_only no invocation of a registered tool
\* or resource changes the database, and none of the connector operations
\* it reaches calls create_collection, create_payload_index, upsert or
\* delete_collection.
C17_ReadOnly ==
    [][settings.read_only =>
          /\ db' = db
          /\ \A p \in Procs : NoWriteCall(tasks'[p])]_vars

C17_Witness ==
    \E p \in Procs :
       LET t == tasks[p] IN
       /\ settings.read_only
       /\ nops = MaxOps
       /\ Done(t, "search") /\ t.result.kind = "returned"
       /\ t.result.entries # << >>
       /\ db = StoredDb

\* What is left of a string after its scheme.
AfterScheme(s) ==
    IF StartsWith(s, HttpsScheme) THEN SubSeq(s, Len(HttpsScheme) + 1, Len(s))
    ELSE IF StartsWith(s, HttpScheme) THEN SubSeq(s, Len(HttpScheme) + 1, Len(s))
    ELSE s

\* The host of a location: what follows the scheme, up to the port or path.
HostOf(s) ==
    LET r    == AfterScheme(s)
        ends == {i \in 1 .. Len(r) : r[i] \in {":", "/"}}
        n    == IF ends = {} THEN Len(r)
                ELSE (CHOOSE i \in ends : \A j \in ends : i <= j) - 1 IN
    SubSeq(r, 1, n)

SecureOrLocal(s) ==
    StartsWith(s, HttpsScheme) \/ HostOf(s) \in {Localhost, Loopback}

\* C21: the connector is given the configured API key only for a location
\* that is secure (https://) or local (its host is localhost or 127.0.0.1);
\* for every other location string it is given no key (None, or the empty
\* key that was configured), and it is never given a key other than the
\* configured one.
C21_ApiKeyGating ==
    connection.made =>
       /\ connection.key \in {NoStr, connection.api_key}
       /\ ( /\ Truthy(connection.location)
            /\ ~SecureOrLocal(connection.location[1]) )
          => ~Truthy(connection.key)

Deleting(t) == t.op = "delete_collection" /\ t.pc = "delete"

\* C22: an invocation of the delete_collection tool with confirm false calls
\* nothing and leaves the database as it is; a collection disappears only in
\* the delete call of a delete_collection that an invocation with confirm
\* true began; and the tool reports success only when the connector's
\* delete_collection returned true, after a delete call that did not fail.
C22_DeleteNeedsConfirm ==
    [][ /\ \A p \in Procs, n \in Names :
              ToolDeleteCollection(p, n, FALSE) =>
                 /\ db' = db
                 /\ tasks'[p].pc = "done" /\ tasks'[p].log = << >>
        /\ (\E c \in Names : CollExists(db, c) /\ ~CollExists(db', c)) =>
              \E p \in Procs : Deleting(tasks[p])
        /\ \A p \in Procs :
              (Deleting(tasks'[p]) /\ ~Deleting(tasks[p])) =>
                 \E n \in Names : ToolDeleteCollection(p, n, TRUE)
        /\ \A p \in Procs :
              LET t == tasks'[p] IN
              (Done(t, "delete_collection") /\ DeleteReport(t) = "success") =>
                 /\ t.result.kind = "returned" /\ t.result.flag
                 /\ Failed(t) = {} /\ Calls(t, "delete_collection") # {}
      ]_vars

C22_Witness ==
    \E p \in Procs :
       LET t == tasks[p] IN
       /\ t.op = "delete_collection declined" /\ t.pc = "done"
       /\ t.name = "c1" /\ CollExists(db, "c1")
       /\ db = t.db0 /\ t.log = << >>
       /\ nops > 1

====
